---- MODULE Spec2Model ----
(***************************************************************************)
(* Transaction core of the welfare disbursement service (src/app.py):      *)
(* the hash-chained ledger kept in SQLite, the citizen registry, the three *)
(* approval gates, process_transaction and the process-wide SYSTEM_STATUS. *)
(*                                                                         *)
(* Conventions of the model                                                *)
(*  - Text is a sequence of string tokens; f-string concatenation is \o.   *)
(*  - sha256 is an injective map from text to text (Sha256 below).         *)
(*  - Money is fixed point, in thousandths of a rupee (Rupees(r) = r*1000),*)
(*    so that amounts inside AMOUNT_TOLERANCE of a scheme amount exist.    *)
(*    Python compares floats; the inputs used here stay away from the      *)
(*    exact tolerance border, where float rounding decides.                *)
(*  - Time is a number of seconds; a calendar date is a day number.        *)
(*  - The ledger table is the sequence of its rows in id (insertion)       *)
(*    order; AUTOINCREMENT ids only ever grow, so position orders ids.     *)
(***************************************************************************)
EXTENDS Integers, Sequences, FiniteSets, TLC

VARIABLES SYSTEM_STATUS, ledger, citizens, result, tampered, proc

vars == <<SYSTEM_STATUS, ledger, citizens, result, tampered, proc>>

(***************************************************************************)
(* Bounds of the model                                                     *)
(***************************************************************************)
\* the configured budget, in rupees, scaled down so that exhaustion is reached
INITIAL_BUDGET == 15000
\* day number of "today" when the service starts
BaseDay == 100

(***************************************************************************)
(* Program constants                                                       *)
(***************************************************************************)
Rupees(r) == r * 1000

SCHEME_AMOUNT_MAP ==
    [s \in {"Health_Scheme", "Education_Scheme", "Agriculture_Scheme", "Housing_Scheme"} |->
        CASE s = "Health_Scheme"      -> Rupees(5000)
          [] s = "Education_Scheme"   -> Rupees(10000)
          [] s = "Agriculture_Scheme" -> Rupees(15000)
          [] s = "Housing_Scheme"     -> Rupees(20000)]

\* 0.01 rupee, in thousandths
AMOUNT_TOLERANCE == 10
\* frequency_gate: diff < 30
COOLDOWN_DAYS == 30
\* eligibility_gate: Claim_Count > 3
CLAIM_LIMIT == 3

GENESIS == <<"GENESIS">>

Abs(x) == IF x < 0 THEN -x ELSE x

Max(a, b) == IF a >= b THEN a ELSE b

(***************************************************************************)
(* Clock.  datetime.now() / datetime.today(): a reading is a number of     *)
(* seconds; the calendar day of a reading is reading \div 86400.           *)
(***************************************************************************)
StartOfDay(d) == d * 86400

DayOf(t) == t \div 86400

\* the readings the clock may return to a call, in no particular order: the
\* same second again, a later one or an earlier one
ClockReadings == {StartOfDay(BaseDay) + 1, StartOfDay(BaseDay + COOLDOWN_DAYS)}

(***************************************************************************)
(* LEDGER HELPERS                                                          *)
(***************************************************************************)
\* hashlib.sha256(text).hexdigest(), treated as injective
Sha256(text) == <<"sha256(">> \o text \o <<")">>

hash_id(citizen_id) == Sha256(<<citizen_id>>)

\* strftime("%Y-%m-%d %H:%M:%S"): fixed width, so text order is time order
TimestampText(t) == <<ToString(t)>>

\* integral values without a decimal point, others as str(float)
amount_hash_value(amount) ==
    IF amount % 1000 = 0
    THEN <<ToString(amount \div 1000)>>
    ELSE <<ToString(amount \div 1000), ".", ToString(amount % 1000)>>

\* generate_hash with the amount left out of the hashed text
generate_hash_without_amount(timestamp, citizen_hash, scheme, amount, previous_hash) ==
    Sha256(TimestampText(timestamp) \o citizen_hash \o <<scheme>> \o previous_hash)

generate_hash(timestamp, citizen_hash, scheme, amount, previous_hash) ==
    Sha256(TimestampText(timestamp) \o citizen_hash \o <<scheme>> \o amount \o previous_hash)

\* get_previous_hash without the id tie-break: the first of the rows stamped last
get_previous_hash_first_of_ties(L) ==
    IF L = <<>> THEN GENESIS
    ELSE LET i == CHOOSE k \in 1..Len(L) :
                    \A j \in 1..Len(L) :
                        \/ L[j].timestamp < L[k].timestamp
                        \/ (L[j].timestamp = L[k].timestamp /\ j >= k)
         IN  L[i].current_hash

\* ORDER BY timestamp DESC, id DESC LIMIT 1
get_previous_hash(L) ==
    IF L = <<>> THEN GENESIS
    ELSE LET i == CHOOSE k \in 1..Len(L) :
                    \A j \in 1..Len(L) :
                        \/ L[j].timestamp < L[k].timestamp
                        \/ (L[j].timestamp = L[k].timestamp /\ j <= k)
         IN  L[i].current_hash

\* place row behind every row whose timestamp is not greater (stable sort step)
RECURSIVE InsertByTimestamp(_, _)
InsertByTimestamp(row, sorted) ==
    IF sorted = <<>> THEN <<row>>
    ELSE IF Head(sorted).timestamp <= row.timestamp
         THEN <<Head(sorted)>> \o InsertByTimestamp(row, Tail(sorted))
         ELSE <<row>> \o sorted

\* SELECT ... ORDER BY timestamp; SQLite's sorter keeps rows with equal keys
\* in scan (id) order
RECURSIVE fetch_ledger_rows(_)
fetch_ledger_rows(L) ==
    IF L = <<>> THEN <<>>
    ELSE InsertByTimestamp(L[Len(L)], fetch_ledger_rows(SubSeq(L, 1, Len(L) - 1)))

\* the verification loop without the linkage comparison
RECURSIVE VerifyLoopHashOnly(_, _)
VerifyLoopHashOnly(rows, previous_hash) ==
    IF rows = <<>> THEN TRUE
    ELSE LET row == Head(rows)
             recalculated_hash ==
                 generate_hash(row.timestamp, row.citizen_hash, row.scheme,
                               amount_hash_value(row.amount), row.previous_hash)
         IN  IF recalculated_hash # row.current_hash
             THEN FALSE
             ELSE VerifyLoopHashOnly(Tail(rows), row.current_hash)

RECURSIVE VerifyLoop(_, _)
VerifyLoop(rows, previous_hash) ==
    IF rows = <<>> THEN TRUE
    ELSE LET row == Head(rows)
             recalculated_hash ==
                 generate_hash(row.timestamp, row.citizen_hash, row.scheme,
                               amount_hash_value(row.amount), row.previous_hash)
         IN  IF recalculated_hash # row.current_hash \/ row.previous_hash # previous_hash
             THEN FALSE
             ELSE VerifyLoop(Tail(rows), row.current_hash)

verify_ledger_integrity(L) == VerifyLoop(fetch_ledger_rows(L), GENESIS)

RECURSIVE SumAmounts(_)
SumAmounts(L) == IF L = <<>> THEN 0 ELSE L[1].amount + SumAmounts(Tail(L))

\* the remaining budget without the floor at zero
calculate_remaining_budget_without_floor(L) == Rupees(INITIAL_BUDGET) - SumAmounts(L)

calculate_remaining_budget(L) == Max(Rupees(INITIAL_BUDGET) - SumAmounts(L), 0)

\* int(x) for x >= 0, back in rupees
IntPart(x) == x \div 1000

(***************************************************************************)
(* CITIZEN HELPERS                                                         *)
(***************************************************************************)
NoRecord == [Citizen_ID |-> "none"]

get_citizen_record(C, citizen_id) ==
    IF citizen_id \in DOMAIN C THEN C[citizen_id] ELSE NoRecord

get_expected_scheme_amount(scheme) ==
    IF scheme \in DOMAIN SCHEME_AMOUNT_MAP THEN SCHEME_AMOUNT_MAP[scheme] ELSE -1

(***************************************************************************)
(* VALIDATION GATES                                                        *)
(***************************************************************************)
\* the gate without the Aadhaar check
eligibility_gate_without_aadhaar_check(row, scheme, amount) ==
    LET expected_amount == get_expected_scheme_amount(scheme) IN
    IF row.Account_Status # "Active" THEN [ok |-> FALSE, message |-> <<"Account Not Active">>]
    ELSE IF row.Scheme_Eligibility # scheme THEN [ok |-> FALSE, message |-> <<"Scheme Not Eligible">>]
    ELSE IF expected_amount = -1 THEN [ok |-> FALSE, message |-> <<"Unsupported Scheme">>]
    ELSE IF Abs(row.Scheme_Amount - expected_amount) > AMOUNT_TOLERANCE
         THEN [ok |-> FALSE, message |-> <<"Registry Scheme Amount Mismatch">>]
    ELSE IF Abs(amount - expected_amount) > AMOUNT_TOLERANCE
         THEN [ok |-> FALSE, message |-> <<"Transaction Amount Mismatch">>]
    ELSE IF row.Claim_Count > CLAIM_LIMIT THEN [ok |-> FALSE, message |-> <<"Claim Limit Exceeded">>]
    ELSE [ok |-> TRUE, message |-> <<"Eligible">>]

\* the gate denying at the claim ceiling instead of above it
eligibility_gate_denies_at_limit(row, scheme, amount) ==
    LET expected_amount == get_expected_scheme_amount(scheme) IN
    IF row.Account_Status # "Active" THEN [ok |-> FALSE, message |-> <<"Account Not Active">>]
    ELSE IF row.Aadhaar_Linked # TRUE THEN [ok |-> FALSE, message |-> <<"Aadhaar Not Linked">>]
    ELSE IF row.Scheme_Eligibility # scheme THEN [ok |-> FALSE, message |-> <<"Scheme Not Eligible">>]
    ELSE IF expected_amount = -1 THEN [ok |-> FALSE, message |-> <<"Unsupported Scheme">>]
    ELSE IF Abs(row.Scheme_Amount - expected_amount) > AMOUNT_TOLERANCE
         THEN [ok |-> FALSE, message |-> <<"Registry Scheme Amount Mismatch">>]
    ELSE IF Abs(amount - expected_amount) > AMOUNT_TOLERANCE
         THEN [ok |-> FALSE, message |-> <<"Transaction Amount Mismatch">>]
    ELSE IF row.Claim_Count >= CLAIM_LIMIT THEN [ok |-> FALSE, message |-> <<"Claim Limit Exceeded">>]
    ELSE [ok |-> TRUE, message |-> <<"Eligible">>]

eligibility_gate(row, scheme, amount) ==
    LET expected_amount == get_expected_scheme_amount(scheme) IN
    IF row.Account_Status # "Active" THEN [ok |-> FALSE, message |-> <<"Account Not Active">>]
    ELSE IF row.Aadhaar_Linked # TRUE THEN [ok |-> FALSE, message |-> <<"Aadhaar Not Linked">>]
    ELSE IF row.Scheme_Eligibility # scheme THEN [ok |-> FALSE, message |-> <<"Scheme Not Eligible">>]
    ELSE IF expected_amount = -1 THEN [ok |-> FALSE, message |-> <<"Unsupported Scheme">>]
    ELSE IF Abs(row.Scheme_Amount - expected_amount) > AMOUNT_TOLERANCE
         THEN [ok |-> FALSE, message |-> <<"Registry Scheme Amount Mismatch">>]
    ELSE IF Abs(amount - expected_amount) > AMOUNT_TOLERANCE
         THEN [ok |-> FALSE, message |-> <<"Transaction Amount Mismatch">>]
    ELSE IF row.Claim_Count > CLAIM_LIMIT THEN [ok |-> FALSE, message |-> <<"Claim Limit Exceeded">>]
    ELSE [ok |-> TRUE, message |-> <<"Eligible">>]

\* the gate still denying on the day the cooldown ends
frequency_gate_denies_on_last_day(last_claim_date, now) ==
    IF last_claim_date = -1 THEN [ok |-> FALSE, message |-> <<"Invalid last claim date">>]
    ELSE LET diff == DayOf(now) - last_claim_date IN
         IF diff <= COOLDOWN_DAYS
         THEN [ok |-> FALSE,
               message |-> <<"Claim within 30 days not allowed (Last claim: ", ToString(diff), " days ago)">>]
         ELSE [ok |-> TRUE, message |-> <<"Frequency OK">>]

\* a stored date is a day number, or -1 for text that strptime rejects
frequency_gate(last_claim_date, now) ==
    IF last_claim_date = -1 THEN [ok |-> FALSE, message |-> <<"Invalid last claim date">>]
    ELSE LET diff == DayOf(now) - last_claim_date IN
         IF diff < COOLDOWN_DAYS
         THEN [ok |-> FALSE,
               message |-> <<"Claim within 30 days not allowed (Last claim: ", ToString(diff), " days ago)">>]
         ELSE [ok |-> TRUE, message |-> <<"Frequency OK">>]

\* budget_gate locking the system on every denial
budget_gate_locks_on_denial(S, L, amount) ==
    LET remaining == calculate_remaining_budget(L) IN
    IF remaining <= 0
    THEN [ok |-> FALSE, message |-> <<"Budget Exhausted. System Locked.">>, status |-> "LOCKED"]
    ELSE IF amount > remaining
         THEN [ok |-> FALSE, message |-> <<"Insufficient Budget">>, status |-> "LOCKED"]
         ELSE [ok |-> TRUE, message |-> <<"Budget Approved">>, status |-> S]

\* status is the value SYSTEM_STATUS has after the gate
budget_gate(S, L, amount) ==
    LET remaining == calculate_remaining_budget(L) IN
    IF remaining <= 0
    THEN [ok |-> FALSE, message |-> <<"Budget Exhausted. System Locked.">>, status |-> "LOCKED"]
    ELSE IF amount > remaining
         THEN [ok |-> FALSE, message |-> <<"Insufficient Budget">>, status |-> S]
         ELSE [ok |-> TRUE, message |-> <<"Budget Approved">>, status |-> S]

(***************************************************************************)
(* MAIN TRANSACTION FUNCTION                                               *)
(***************************************************************************)
Denial(message, gate, citizen_name) ==
    [op |-> "process_transaction", success |-> FALSE, message |-> message, gate |-> gate,
     citizen_name |-> citizen_name, remaining_budget |-> -1, transaction_hash |-> <<>>]

IsCall(r) == r.op = "process_transaction"

\* line 428
SystemBlocked(S) == Denial(<<"System is ", S, ". Transaction Blocked.">>, "system", "")

\* the row storing the authorized amount of the scheme instead of the requested one
NewEntry_with_authorized_amount(citizen_id, scheme, amount, timestamp, previous_hash) ==
    LET citizen_hash == hash_id(citizen_id)
        authorized   == get_expected_scheme_amount(scheme)
        amount_str   == amount_hash_value(authorized)
    IN  [timestamp     |-> timestamp,
         citizen_hash  |-> citizen_hash,
         scheme        |-> scheme,
         amount        |-> authorized,
         previous_hash |-> previous_hash,
         current_hash  |-> generate_hash(timestamp, citizen_hash, scheme, amount_str, previous_hash)]

\* lines 457-462: the row a call inserts, given what it read
NewEntry(citizen_id, scheme, amount, timestamp, previous_hash) ==
    LET citizen_hash == hash_id(citizen_id)
        amount_str   == amount_hash_value(amount)
    IN  [timestamp     |-> timestamp,
         citizen_hash  |-> citizen_hash,
         scheme        |-> scheme,
         amount        |-> amount,
         previous_hash |-> previous_hash,
         current_hash  |-> generate_hash(timestamp, citizen_hash, scheme, amount_str, previous_hash)]

\* the commit without the lock on exhaustion
Approval_without_lock(S, L, citizen_name, current_hash) ==
    [status |-> S,
     result |-> [op |-> "process_transaction", success |-> TRUE,
                 message |-> <<"Transaction Approved">>, gate |-> "none",
                 citizen_name |-> citizen_name,
                 remaining_budget |-> IntPart(calculate_remaining_budget(L)),
                 transaction_hash |-> <<"[:16]">> \o current_hash \o <<"...">>]]

\* the commit locking as soon as less than one Health_Scheme payment is left
Approval_locks_below_smallest_payment(S, L, citizen_name, current_hash) ==
    LET remaining_budget == IntPart(calculate_remaining_budget(L)) IN
    [status |-> IF Rupees(remaining_budget) < SCHEME_AMOUNT_MAP["Health_Scheme"] THEN "LOCKED" ELSE S,
     result |-> [op |-> "process_transaction", success |-> TRUE,
                 message |-> <<"Transaction Approved">>, gate |-> "none",
                 citizen_name |-> citizen_name, remaining_budget |-> remaining_budget,
                 transaction_hash |-> <<"[:16]">> \o current_hash \o <<"...">>]]

\* lines 476-486: after the insert, on the ledger L the call sees
Approval(S, L, citizen_name, current_hash) ==
    LET remaining_budget == IntPart(calculate_remaining_budget(L)) IN
    [status |-> IF remaining_budget <= 0 THEN "LOCKED" ELSE S,
     result |-> [op |-> "process_transaction", success |-> TRUE,
                 message |-> <<"Transaction Approved">>, gate |-> "none",
                 citizen_name |-> citizen_name, remaining_budget |-> remaining_budget,
                 transaction_hash |-> <<"[:16]">> \o current_hash \o <<"...">>]]

\* the gates in the order eligibility, frequency, budget
RunGates_frequency_before_budget(S, L, row, citizen_id, scheme, amount, now) ==
    LET g1 == eligibility_gate(row, scheme, amount) IN
    IF ~g1.ok
    THEN [status |-> S, ledger |-> L, result |-> Denial(g1.message, "eligibility", row.Name)]
    ELSE LET g3 == frequency_gate(row.Last_Claim_Date, now) IN
    IF ~g3.ok
    THEN [status |-> S, ledger |-> L, result |-> Denial(g3.message, "frequency", row.Name)]
    ELSE LET g2 == budget_gate(S, L, amount) IN
    IF ~g2.ok
    THEN [status |-> g2.status, ledger |-> L, result |-> Denial(g2.message, "budget", row.Name)]
    ELSE LET entry == NewEntry(citizen_id, scheme, amount, now, get_previous_hash(L))
             L2    == Append(L, entry)
             done  == Approval(g2.status, L2, row.Name, entry.current_hash)
         IN  [status |-> done.status, ledger |-> L2, result |-> done.result]

\* lines 441-486: the gates in their order, then the commit.  now is the
\* reading of the clock during the call: frequency_gate takes the day of it,
\* the entry is stamped with it.
RunGates(S, L, row, citizen_id, scheme, amount, now) ==
    LET g1 == eligibility_gate(row, scheme, amount) IN
    IF ~g1.ok
    THEN [status |-> S, ledger |-> L, result |-> Denial(g1.message, "eligibility", row.Name)]
    ELSE LET g2 == budget_gate(S, L, amount) IN
    IF ~g2.ok
    THEN [status |-> g2.status, ledger |-> L, result |-> Denial(g2.message, "budget", row.Name)]
    ELSE LET g3 == frequency_gate(row.Last_Claim_Date, now) IN
    IF ~g3.ok
    THEN [status |-> g2.status, ledger |-> L, result |-> Denial(g3.message, "frequency", row.Name)]
    ELSE LET entry == NewEntry(citizen_id, scheme, amount, now, get_previous_hash(L))
             L2    == Append(L, entry)
             done  == Approval(g2.status, L2, row.Name, entry.current_hash)
         IN  [status |-> done.status, ledger |-> L2, result |-> done.result]

\* the call reporting a failed integrity check without freezing
CheckedCall_without_freeze(S, L, C, citizen_id, scheme, amount, now) ==
    IF ~verify_ledger_integrity(L)
    THEN [status |-> S, ledger |-> L,
          result |-> Denial(<<"Ledger Tampering Detected. System Frozen.">>, "integrity", "")]
    ELSE LET row == get_citizen_record(C, citizen_id) IN
         IF row = NoRecord
         THEN [status |-> S, ledger |-> L, result |-> Denial(<<"Citizen Not Found">>, "lookup", "")]
         ELSE RunGates(S, L, row, citizen_id, scheme, amount, now)

\* the call running the budget gate before it looks the citizen up
CheckedCall_budget_before_lookup(S, L, C, citizen_id, scheme, amount, now) ==
    IF ~verify_ledger_integrity(L)
    THEN [status |-> "FROZEN", ledger |-> L,
          result |-> Denial(<<"Ledger Tampering Detected. System Frozen.">>, "integrity", "")]
    ELSE LET row == get_citizen_record(C, citizen_id)
             g2  == budget_gate(S, L, amount)
         IN  IF row = NoRecord
             THEN [status |-> g2.status, ledger |-> L,
                   result |-> Denial(<<"Citizen Not Found">>, "lookup", "")]
             ELSE RunGates(S, L, row, citizen_id, scheme, amount, now)

\* lines 430-486: the integrity check, the lookup, then the gates
CheckedCall(S, L, C, citizen_id, scheme, amount, now) ==
    IF ~verify_ledger_integrity(L)
    THEN [status |-> "FROZEN", ledger |-> L,
          result |-> Denial(<<"Ledger Tampering Detected. System Frozen.">>, "integrity", "")]
    ELSE LET row == get_citizen_record(C, citizen_id) IN
         IF row = NoRecord
         THEN [status |-> S, ledger |-> L, result |-> Denial(<<"Citizen Not Found">>, "lookup", "")]
         ELSE RunGates(S, L, row, citizen_id, scheme, amount, now)

\* the call running the integrity check before the status check
process_transaction_integrity_before_status(S, L, C, citizen_id, scheme, amount, now) ==
    IF ~verify_ledger_integrity(L)
    THEN [status |-> "FROZEN", ledger |-> L,
          result |-> Denial(<<"Ledger Tampering Detected. System Frozen.">>, "integrity", "")]
    ELSE IF S # "ACTIVE"
    THEN [status |-> S, ledger |-> L, result |-> SystemBlocked(S)]
    ELSE CheckedCall(S, L, C, citizen_id, scheme, amount, now)

\* the call without the status check of line 427
process_transaction_without_status_check(S, L, C, citizen_id, scheme, amount, now) ==
    CheckedCall(S, L, C, citizen_id, scheme, amount, now)

\* One whole call, run without interruption.  The value is the state after
\* the call and what the call returns.
process_transaction(S, L, C, citizen_id, scheme, amount, now) ==
    IF S # "ACTIVE"
    THEN [status |-> S, ledger |-> L, result |-> SystemBlocked(S)]
    ELSE CheckedCall(S, L, C, citizen_id, scheme, amount, now)

(***************************************************************************)
(* Registry write path                                                     *)
(***************************************************************************)
\* identifiers that are exactly 12 decimal digits
WellFormedIds == {"123456789012", "987654321098", "555566667777", "111122223333", "000000000000"}

\* a payload is a record; "" / -1 stand for an absent or unparsable field
validate_citizen_payload(data, today) ==
    LET expected_amount == get_expected_scheme_amount(data.scheme_eligibility) IN
    IF data.citizen_id \notin WellFormedIds
    THEN [ok |-> FALSE, message |-> <<"Citizen ID must be a 12 digit number">>]
    ELSE IF data.name = "" THEN [ok |-> FALSE, message |-> <<"Name is required">>]
    ELSE IF data.scheme_eligibility = ""
    THEN [ok |-> FALSE, message |-> <<"Scheme eligibility is required">>]
    ELSE IF data.scheme_amount <= 0
    THEN [ok |-> FALSE, message |-> <<"Scheme amount must be greater than zero">>]
    ELSE IF expected_amount = -1
    THEN [ok |-> FALSE, message |-> <<"Unsupported scheme: ", data.scheme_eligibility>>]
    ELSE IF Abs(data.scheme_amount - expected_amount) > AMOUNT_TOLERANCE
    THEN [ok |-> FALSE, message |-> <<"Scheme amount must be Rs. ", ToString(IntPart(expected_amount)),
                                      " for ", data.scheme_eligibility>>]
    ELSE IF data.claim_count < 0 THEN [ok |-> FALSE, message |-> <<"Claim count cannot be negative">>]
    ELSE IF data.last_claim_date = -1
    THEN [ok |-> FALSE, message |-> <<"Last claim date must be in YYYY-MM-DD format">>]
    ELSE [ok |-> TRUE, message |-> <<"Citizen saved successfully">>,
          record |-> [Citizen_ID         |-> data.citizen_id,
                      Name               |-> data.name,
                      Account_Status     |-> IF data.account_status = "" THEN "Active"
                                             ELSE data.account_status,
                      Aadhaar_Linked     |-> data.aadhaar_linked,
                      Scheme_Eligibility |-> data.scheme_eligibility,
                      Scheme_Amount      |-> data.scheme_amount,
                      Claim_Count        |-> data.claim_count,
                      Last_Claim_Date    |-> IF data.last_claim_date = -2 THEN DayOf(today)
                                             ELSE data.last_claim_date]]

\* INSERT ... ON CONFLICT(citizen_id) DO UPDATE
upsert_citizen(C, record) ==
    [id \in DOMAIN C \cup {record.Citizen_ID} |->
        IF id = record.Citizen_ID THEN record ELSE C[id]]

(***************************************************************************)
(* Inputs                                                                  *)
(***************************************************************************)
\* the registry loaded at start-up (create_sample_data.py)
SampleRegistry ==
    LET rec(id, name, st, linked, scheme, amt, cnt, ago) ==
            [Citizen_ID |-> id, Name |-> name, Account_Status |-> st, Aadhaar_Linked |-> linked,
             Scheme_Eligibility |-> scheme, Scheme_Amount |-> Rupees(amt), Claim_Count |-> cnt,
             Last_Claim_Date |-> BaseDay - ago]
    IN  [id \in {"123456789012", "987654321098", "555566667777", "111122223333"} |->
            CASE id = "123456789012" -> rec(id, "Rahul Sharma", "Active", TRUE, "Health_Scheme", 5000, 2, 45)
              [] id = "987654321098" -> rec(id, "Priya Patel", "Active", TRUE, "Education_Scheme", 10000, 1, 60)
              [] id = "555566667777" -> rec(id, "Amit Kumar", "Inactive", TRUE, "Health_Scheme", 5000, 5, 10)
              [] id = "111122223333" -> rec(id, "Sita Devi", "Active", FALSE, "Health_Scheme", 5000, 0, 90)]

RequestIds == {"123456789012", "987654321098", "555566667777", "111122223333", "000000000000"}

RequestSchemes == {"Health_Scheme", "Education_Scheme", "Pension_Scheme"}

\* the authorized amount; for Health_Scheme also one inside the tolerance
\* (5000.005) and one outside (4999)
RequestAmounts(scheme) ==
    CASE scheme = "Health_Scheme"    -> {Rupees(5000), Rupees(5000) + 5, Rupees(4999)}
      [] scheme = "Education_Scheme" -> {Rupees(10000)}
      [] OTHER                       -> {Rupees(5000)}

\* what an administrator posts for citizen 555566667777: the stored record
\* with single fields changed, and two payloads the validation rejects
UpsertPayloads ==
    LET base == [citizen_id |-> "555566667777", name |-> "Amit Kumar", account_status |-> "Active",
                 aadhaar_linked |-> TRUE, scheme_eligibility |-> "Health_Scheme",
                 scheme_amount |-> Rupees(5000), claim_count |-> 0, last_claim_date |-> BaseDay - 10]
    IN  {base,
         [base EXCEPT !.account_status = ""],
         [base EXCEPT !.claim_count = 5],
         [base EXCEPT !.last_claim_date = -2],
         [base EXCEPT !.scheme_amount = Rupees(4999)],
         [base EXCEPT !.citizen_id = "5555"]}

(***************************************************************************)
(* State machine: every handler runs to completion                         *)
(***************************************************************************)
Procs == {1, 2}

Idle == [pc |-> "idle"]

Init ==
    /\ SYSTEM_STATUS = "ACTIVE"
    /\ ledger = <<>>
    /\ citizens = SampleRegistry
    /\ result = [op |-> "init"]
    /\ tampered = FALSE
    /\ proc = [p \in Procs |-> Idle]

ProcessTransaction ==
    \E citizen_id \in RequestIds, scheme \in RequestSchemes, now \in ClockReadings :
      \E amount \in RequestAmounts(scheme) :
        LET r == process_transaction(SYSTEM_STATUS, ledger, citizens,
                                     citizen_id, scheme, amount, now)
        IN  /\ SYSTEM_STATUS' = r.status
            /\ ledger' = r.ledger
            /\ result' = r.result
            /\ UNCHANGED <<citizens, tampered, proc>>

\* POST /citizens
UpsertCitizen ==
    \E data \in UpsertPayloads, today \in ClockReadings :
        LET v == validate_citizen_payload(data, today) IN
        /\ citizens' = IF v.ok THEN upsert_citizen(citizens, v.record) ELSE citizens
        /\ result' = [op |-> "upsert_citizen", success |-> v.ok, message |-> v.message]
        /\ UNCHANGED <<SYSTEM_STATUS, ledger, tampered, proc>>

\* GET /status
GetStatus ==
    /\ result' = [op |-> "get_status",
                  budget |-> IntPart(calculate_remaining_budget(ledger)),
                  system_status |-> SYSTEM_STATUS,
                  ledger_integrity |-> verify_ledger_integrity(ledger)]
    /\ UNCHANGED <<SYSTEM_STATUS, ledger, citizens, tampered, proc>>

RECURSIVE Reverse(_)
Reverse(s) == IF s = <<>> THEN <<>> ELSE Reverse(Tail(s)) \o <<Head(s)>>

\* GET /ledger
GetLedger ==
    /\ result' = [op |-> "get_ledger",
                  records |-> LET rows == Reverse(fetch_ledger_rows(ledger)) IN
                              [i \in 1..Len(rows) |->
                                  [timestamp |-> rows[i].timestamp,
                                   citizen_hash |-> <<"[:12]">> \o rows[i].citizen_hash \o <<"...">>,
                                   scheme |-> rows[i].scheme,
                                   amount |-> rows[i].amount,
                                   block_hash |-> <<"[:12]">> \o rows[i].current_hash \o <<"...">>]]]
    /\ UNCHANGED <<SYSTEM_STATUS, ledger, citizens, tampered, proc>>

\* The service process is started again: the module is loaded anew
\* (SYSTEM_STATUS = "ACTIVE"), the database file is kept; ledger.txt and the
\* registry workbook are not in the working directory, so init_db has
\* nothing to backfill.
Restart ==
    /\ SYSTEM_STATUS' = "ACTIVE"
    /\ result' = [op |-> "restart"]
    /\ UNCHANGED <<ledger, citizens, tampered, proc>>

Next == ProcessTransaction \/ UpsertCitizen \/ GetStatus \/ GetLedger \/ Restart

Spec == Init /\ [][Next]_vars

(***************************************************************************)
(* The same machine with the database file open to modification from       *)
(* outside the program: one stored field of one row is overwritten, once   *)
(* in a run (tampered records that it happened).                           *)
(***************************************************************************)
LedgerFields == {"timestamp", "citizen_hash", "scheme", "amount", "previous_hash", "current_hash"}

\* the values an outside writer may store in a field
FieldValues(L, field) ==
    CASE field = "timestamp"    -> ClockReadings \cup {0}
      [] field = "citizen_hash" -> {hash_id(c) : c \in RequestIds}
      [] field = "scheme"       -> RequestSchemes
      [] field = "amount"       -> {0, Rupees(5000), Rupees(5000) + 5, Rupees(10000)}
      [] OTHER                  -> {GENESIS, Sha256(<<"forged">>)}
                                     \cup {L[k].current_hash : k \in 1..Len(L)}

Tamper ==
    /\ ~tampered
    /\ \E i \in 1..Len(ledger), field \in LedgerFields :
         \E v \in FieldValues(ledger, field) :
            /\ v # ledger[i][field]
            /\ ledger' = [ledger EXCEPT ![i] = [@ EXCEPT ![field] = v]]
    /\ tampered' = TRUE
    /\ result' = [op |-> "tamper"]
    /\ UNCHANGED <<SYSTEM_STATUS, citizens, proc>>

NextTamper == ProcessTransaction \/ GetStatus \/ Restart \/ Tamper

SpecTamper == Init /\ [][NextTamper]_vars

(***************************************************************************)
(* Concurrent requests.  The server handles every request in a thread of   *)
(* its own and process_transaction takes no lock, so the calls of two      *)
(* requests interleave between their accesses to the database and to       *)
(* SYSTEM_STATUS.  proc[p] is the position of request thread p and the     *)
(* locals it holds; result is what the call that returned last returned.   *)
(***************************************************************************)
\* the requests that arrive together: two that every gate passes, one for an
\* inactive account and one for a citizen the registry does not hold
ConcurrentRequests ==
    {[citizen_id |-> "123456789012", scheme |-> "Health_Scheme", amount |-> Rupees(5000)],
     [citizen_id |-> "987654321098", scheme |-> "Education_Scheme", amount |-> Rupees(10000)],
     [citizen_id |-> "555566667777", scheme |-> "Health_Scheme", amount |-> Rupees(5000)],
     [citizen_id |-> "000000000000", scheme |-> "Health_Scheme", amount |-> Rupees(5000)]}

Return(p, r) ==
    /\ result' = r
    /\ proc' = [proc EXCEPT ![p] = Idle]

\* line 427: the status check
Begin(p) ==
    /\ proc[p].pc = "idle"
    /\ \E req \in ConcurrentRequests :
         IF SYSTEM_STATUS # "ACTIVE"
         THEN Return(p, SystemBlocked(SYSTEM_STATUS))
         ELSE /\ proc' = [proc EXCEPT ![p] = [pc |-> "verify", citizen_id |-> req.citizen_id,
                                              scheme |-> req.scheme, amount |-> req.amount]]
              /\ UNCHANGED result
    /\ UNCHANGED <<SYSTEM_STATUS, ledger, citizens, tampered>>

\* lines 430-432: the integrity check
Verify(p) ==
    /\ proc[p].pc = "verify"
    /\ IF ~verify_ledger_integrity(ledger)
       THEN /\ SYSTEM_STATUS' = "FROZEN"
            /\ Return(p, Denial(<<"Ledger Tampering Detected. System Frozen.">>, "integrity", ""))
       ELSE /\ proc' = [proc EXCEPT ![p].pc = "lookup"]
            /\ UNCHANGED <<SYSTEM_STATUS, result>>
    /\ UNCHANGED <<ledger, citizens, tampered>>

\* lines 434-444: the lookup and the eligibility gate, which reads the row only
Lookup(p) ==
    /\ proc[p].pc = "lookup"
    /\ LET row == get_citizen_record(citizens, proc[p].citizen_id) IN
       IF row = NoRecord
       THEN Return(p, Denial(<<"Citizen Not Found">>, "lookup", ""))
       ELSE LET g1 == eligibility_gate(row, proc[p].scheme, proc[p].amount) IN
            IF ~g1.ok
            THEN Return(p, Denial(g1.message, "eligibility", row.Name))
            ELSE /\ proc' = [proc EXCEPT ![p] = [pc |-> "budget", citizen_id |-> @.citizen_id,
                                                 scheme |-> @.scheme, amount |-> @.amount,
                                                 row |-> row]]
                 /\ UNCHANGED result
    /\ UNCHANGED <<SYSTEM_STATUS, ledger, citizens, tampered>>

\* lines 446-454: the budget gate, then the frequency gate on the row held
Budget(p) ==
    /\ proc[p].pc = "budget"
    /\ LET g2 == budget_gate(SYSTEM_STATUS, ledger, proc[p].amount) IN
       /\ SYSTEM_STATUS' = g2.status
       /\ IF ~g2.ok
          THEN Return(p, Denial(g2.message, "budget", proc[p].row.Name))
          ELSE \E today \in ClockReadings :
                 LET g3 == frequency_gate(proc[p].row.Last_Claim_Date, today) IN
                 IF ~g3.ok
                 THEN Return(p, Denial(g3.message, "frequency", proc[p].row.Name))
                 ELSE /\ proc' = [proc EXCEPT ![p].pc = "stamp"]
                      /\ UNCHANGED result
    /\ UNCHANGED <<ledger, citizens, tampered>>

\* lines 457-462: the timestamp, the tail read and the hash
Stamp(p) ==
    /\ proc[p].pc = "stamp"
    /\ \E now \in ClockReadings :
         proc' = [proc EXCEPT ![p] =
                    [pc |-> "insert", name |-> @.row.Name,
                     entry |-> NewEntry(@.citizen_id, @.scheme, @.amount, now,
                                        get_previous_hash(ledger))]]
    /\ UNCHANGED <<SYSTEM_STATUS, ledger, citizens, result, tampered>>

\* lines 464-474: the insert
Insert(p) ==
    /\ proc[p].pc = "insert"
    /\ ledger' = Append(ledger, proc[p].entry)
    /\ proc' = [proc EXCEPT ![p].pc = "post"]
    /\ UNCHANGED <<SYSTEM_STATUS, citizens, result, tampered>>

\* lines 476-486: the remaining budget, the lock and the return
Post(p) ==
    /\ proc[p].pc = "post"
    /\ LET done == Approval(SYSTEM_STATUS, ledger, proc[p].name, proc[p].entry.current_hash) IN
       /\ SYSTEM_STATUS' = done.status
       /\ Return(p, done.result)
    /\ UNCHANGED <<ledger, citizens, tampered>>

NextConc ==
    \E p \in Procs :
        Begin(p) \/ Verify(p) \/ Lookup(p) \/ Budget(p) \/ Stamp(p) \/ Insert(p) \/ Post(p)

SpecConc == Init /\ [][NextConc]_vars

(***************************************************************************)
(* Properties                                                              *)
(***************************************************************************)
\* C1: hash-chain invariant.  After any sequence of sequential calls from the
\* empty ledger, whatever the clock returned, every entry's previous_hash is
\* the current_hash of the entry inserted just before it, and the first
\* entry's previous_hash is "GENESIS".
C1_HashChain ==
    \A i \in 1..Len(ledger) :
        ledger[i].previous_hash = IF i = 1 THEN GENESIS ELSE ledger[i - 1].current_hash

\* an entry stamped earlier than the entry inserted before it
C1_Witness ==
    /\ Len(ledger) >= 2
    /\ ledger[2].timestamp < ledger[1].timestamp

\* C2: tamper detection.  Overwriting one stored field of one entry of a
\* ledger built by approved calls with a different value makes
\* verify_ledger_integrity return false.
C2_TamperDetected ==
    [][(~tampered /\ tampered') => ~verify_ledger_integrity(ledger')]_vars

C2_Witness ==
    /\ tampered
    /\ result.op = "tamper"
    /\ Len(ledger) >= 2
    /\ ~verify_ledger_integrity(ledger)

\* every row's stored hash is the hash of its fields and its previous_hash is
\* the current_hash of the row before it, in the order fetch_ledger_rows gives
ChainIntact(rows) ==
    \A i \in 1..Len(rows) :
        /\ rows[i].current_hash =
               generate_hash(rows[i].timestamp, rows[i].citizen_hash, rows[i].scheme,
                             amount_hash_value(rows[i].amount), rows[i].previous_hash)
        /\ rows[i].previous_hash = IF i = 1 THEN GENESIS ELSE rows[i - 1].current_hash

\* C3: verify_ledger_integrity returns true exactly when every entry, in the
\* order the ledger is read, stores the hash of its own fields and names its
\* predecessor's current_hash ("GENESIS" for the first); true for no entries.
C3_VerifyIff ==
    verify_ledger_integrity(ledger) <=> ChainIntact(fetch_ledger_rows(ledger))

\* every stored hash is right and only the linkage, in reading order, is broken
C3_Witness ==
    /\ ~tampered
    /\ Len(ledger) = 2
    /\ ~verify_ledger_integrity(ledger)

\* C4 (as claimed): with no modification from outside, the ledger verifies
\* after any number of approved calls, whatever timestamps were stamped.
C4_AppendThenVerify ==
    ~tampered => verify_ledger_integrity(ledger)

\* C6: a call made while SYSTEM_STATUS is LOCKED or FROZEN returns the
\* system-blocked failure, which depends on nothing but the status, and
\* changes neither the ledger, the registry nor SYSTEM_STATUS.
C6_BlockedWhenNotActive ==
    [][(SYSTEM_STATUS # "ACTIVE" /\ IsCall(result'))
          => /\ result' = SystemBlocked(SYSTEM_STATUS)
             /\ UNCHANGED <<ledger, citizens, SYSTEM_STATUS>>]_vars

C6_Witness ==
    /\ SYSTEM_STATUS = "LOCKED"
    /\ IsCall(result)
    /\ result.gate = "system"

\* C7: no operation of the service (process_transaction with its gates,
\* get_status, upsert_citizen, get_ledger) changes SYSTEM_STATUS once it is
\* LOCKED or FROZEN.
C7_Terminal ==
    [][(/\ SYSTEM_STATUS \in {"LOCKED", "FROZEN"}
        /\ result'.op \in {"process_transaction", "get_status", "upsert_citizen", "get_ledger"})
          => SYSTEM_STATUS' = SYSTEM_STATUS]_vars

C7_Witness ==
    /\ SYSTEM_STATUS = "FROZEN"
    /\ result.op = "get_status"

\* C8: a call that finds SYSTEM_STATUS ACTIVE and the ledger failing its check
\* sets FROZEN, returns the failure of gate "integrity", appends nothing and
\* changes no citizen record; calls made while FROZEN are system-blocked.
C8_FreezeOnTampering ==
    [][/\ (SYSTEM_STATUS = "ACTIVE" /\ ~verify_ledger_integrity(ledger) /\ IsCall(result'))
          => /\ SYSTEM_STATUS' = "FROZEN"
             /\ result'.success = FALSE
             /\ result'.gate = "integrity"
             /\ UNCHANGED <<ledger, citizens>>
       /\ (SYSTEM_STATUS = "FROZEN" /\ IsCall(result'))
          => /\ result'.success = FALSE
             /\ result'.gate = "system"
             /\ UNCHANGED <<ledger, citizens, SYSTEM_STATUS>>]_vars

C8_Witness ==
    /\ tampered
    /\ SYSTEM_STATUS = "FROZEN"
    /\ IsCall(result)
    /\ result.gate = "integrity"

Exhausted(L) == SumAmounts(L) = Rupees(INITIAL_BUDGET)

\* C9 (as claimed): when the approved total has reached INITIAL_BUDGET exactly,
\* it is the next call that takes SYSTEM_STATUS from ACTIVE to LOCKED.
C9_NextCallLocks ==
    [][(IsCall(result) /\ result.success /\ Exhausted(ledger) /\ IsCall(result'))
          => (SYSTEM_STATUS = "ACTIVE" /\ SYSTEM_STATUS' = "LOCKED")]_vars

\* C9 (amended): the approving call that brings the total to INITIAL_BUDGET
\* itself sets LOCKED, and every call made while LOCKED is rejected with the
\* system-blocked reason.
C9_ApprovalLocks ==
    [][/\ (IsCall(result') /\ result'.success /\ ledger' # ledger /\ Exhausted(ledger'))
          => SYSTEM_STATUS' = "LOCKED"
       /\ (SYSTEM_STATUS = "LOCKED" /\ Exhausted(ledger) /\ IsCall(result'))
          => /\ result' = SystemBlocked("LOCKED")
             /\ SYSTEM_STATUS' = "LOCKED"]_vars

C9_Witness ==
    /\ Exhausted(ledger)
    /\ SYSTEM_STATUS = "LOCKED"
    /\ result = SystemBlocked("LOCKED")

GateDenial(r) == IsCall(r) /\ r.gate \in {"eligibility", "budget", "frequency"}

\* C10 (as claimed): a denial by the eligibility, budget or frequency gate
\* leaves the ledger, every citizen record and SYSTEM_STATUS as they were.
C10_NoMutationOnDenial ==
    [][GateDenial(result') => UNCHANGED <<ledger, citizens, SYSTEM_STATUS>>]_vars

\* C10 (amended): a gate denial leaves the ledger and every citizen record as
\* they were; SYSTEM_STATUS is unchanged too, except that the budget gate sets
\* it to LOCKED when it finds the remaining budget <= 0.
C10_DenialOnlyLocks ==
    [][GateDenial(result')
          => /\ UNCHANGED <<ledger, citizens>>
             /\ \/ SYSTEM_STATUS' = SYSTEM_STATUS
                \/ /\ result'.gate = "budget"
                   /\ calculate_remaining_budget(ledger) <= 0
                   /\ SYSTEM_STATUS' = "LOCKED"]_vars

\* the budget gate has denied a call and locked the system
C10_Witness ==
    /\ IsCall(result)
    /\ result.gate = "budget"
    /\ result.message = <<"Budget Exhausted. System Locked.">>
    /\ SYSTEM_STATUS = "LOCKED"

\* C5 (as claimed): whatever the interleaving of concurrent approved calls, no
\* two ledger entries carry the same previous_hash.
C5_NoSharedPreviousHash ==
    \A i, j \in 1..Len(ledger) :
        i # j => ledger[i].previous_hash # ledger[j].previous_hash

(***************************************************************************)
(* Rows deleted from the database file by an outside writer               *)
(***************************************************************************)
\* the rows of L at the positions not in gone, in their order
RECURSIVE Without(_, _)
Without(L, gone) ==
    IF L = <<>> THEN <<>>
    ELSE LET rest == Without(SubSeq(L, 1, Len(L) - 1), gone)
         IN  IF Len(L) \in gone THEN rest ELSE Append(rest, L[Len(L)])

\* one row, or every row from some position to the end, is deleted
RemoveRows ==
    /\ ~tampered
    /\ \E i \in 1..Len(ledger) :
         \E gone \in {{i}, i..Len(ledger)} :
            ledger' = Without(ledger, gone)
    /\ tampered' = TRUE
    /\ result' = [op |-> "remove_rows"]
    /\ UNCHANGED <<SYSTEM_STATUS, citizens, proc>>

NextRemove == ProcessTransaction \/ GetStatus \/ Restart \/ RemoveRows

SpecRemove == Init /\ [][NextRemove]_vars

(***************************************************************************)
(* Start-up with ledger.txt and the registry workbook in place             *)
(***************************************************************************)
\* float(amount_str) of line 93 for the texts that occur, 0.0 for a text
\* that float() rejects
FloatOf(amount_str) ==
    CASE amount_str = <<"5000">>   -> Rupees(5000)
      [] amount_str = <<"5000.0">> -> Rupees(5000)
      [] amount_str = <<"10000">>  -> Rupees(10000)
      [] OTHER                     -> 0

\* lines 85-104: the lines of the file in their order; a line whose
\* current_hash is already stored is skipped, any other is inserted
RECURSIVE backfill_ledger_from_file(_, _)
backfill_ledger_from_file(L, lines) ==
    IF lines = <<>> THEN L
    ELSE LET line == Head(lines) IN
         IF \E k \in 1..Len(L) : L[k].current_hash = line.current_hash
         THEN backfill_ledger_from_file(L, Tail(lines))
         ELSE backfill_ledger_from_file(
                  Append(L, [timestamp     |-> line.timestamp,
                             citizen_hash  |-> line.citizen_hash,
                             scheme        |-> line.scheme,
                             amount        |-> FloatOf(line.amount_str),
                             previous_hash |-> line.previous_hash,
                             current_hash  |-> line.current_hash]),
                  Tail(lines))

\* lines 131-153: INSERT OR REPLACE of every row of the workbook
backfill_citizens_from_excel(C, workbook) ==
    [c \in DOMAIN C \cup DOMAIN workbook |-> IF c \in DOMAIN workbook THEN workbook[c] ELSE C[c]]

\* the line test_fraud.py writes for its approved request (Test 1), with the
\* amount as the text str(amount), chained to the last line of the file
FileLine(timestamp, amount_str, previous_hash) ==
    LET citizen_hash == hash_id("123456789012") IN
    [timestamp     |-> timestamp,
     citizen_hash  |-> citizen_hash,
     scheme        |-> "Health_Scheme",
     amount_str    |-> amount_str,
     previous_hash |-> previous_hash,
     current_hash  |-> Sha256(TimestampText(timestamp) \o citizen_hash \o <<"Health_Scheme">>
                              \o amount_str \o previous_hash)]

\* ledger.txt after one run and after two runs of test_fraud.py, at
\* midnight of day BaseDay and one second later
LedgerFiles ==
    LET first  == FileLine(StartOfDay(BaseDay), <<"5000">>, GENESIS)
        second == FileLine(StartOfDay(BaseDay) + 1, <<"5000">>, first.current_hash)
    IN  {<<first>>, <<first, second>>}

\* init_db at a start of the service, lines 38-72, both files present
InitDb ==
    \E lines \in LedgerFiles :
        /\ SYSTEM_STATUS' = "ACTIVE"
        /\ ledger' = backfill_ledger_from_file(ledger, lines)
        /\ citizens' = backfill_citizens_from_excel(citizens, SampleRegistry)
        /\ result' = [op |-> "init_db"]
        /\ UNCHANGED <<tampered, proc>>

NextBackfill == ProcessTransaction \/ UpsertCitizen \/ GetStatus \/ GetLedger \/ InitDb

SpecBackfill == Init /\ [][NextBackfill]_vars

(***************************************************************************)
(* The gates called on their own                                           *)
(***************************************************************************)
\* records as prepare_citizen_record returns them: every field at a value
\* the gate accepts and at one it rejects, the registry amount also inside
\* the tolerance
GateRows ==
    [Citizen_ID : {"123456789012"}, Name : {"Rahul Sharma"},
     Account_Status : {"Active", "Inactive"},
     Aadhaar_Linked : BOOLEAN,
     Scheme_Eligibility : {"Health_Scheme", "Pension_Scheme"},
     Scheme_Amount : {Rupees(5000), Rupees(5000) + 5, Rupees(4999)},
     Claim_Count : {CLAIM_LIMIT, CLAIM_LIMIT + 1},
     Last_Claim_Date : {BaseDay - 45}]

EligibilityGate ==
    \E row \in GateRows, scheme \in RequestSchemes :
      \E amount \in RequestAmounts(scheme) :
        LET g == eligibility_gate(row, scheme, amount) IN
        /\ result' = [op |-> "eligibility_gate", row |-> row, scheme |-> scheme, amount |-> amount,
                      ok |-> g.ok, message |-> g.message]
        /\ UNCHANGED <<SYSTEM_STATUS, ledger, citizens, tampered, proc>>

\* stored dates: one that does not parse, and days before, at and after the
\* end of the cooldown as seen from the clock readings
GateDates ==
    {-1, BaseDay - 45, BaseDay - COOLDOWN_DAYS, BaseDay - COOLDOWN_DAYS + 1,
     BaseDay - 10, BaseDay, BaseDay + 1}

FrequencyGate ==
    \E last_claim_date \in GateDates, now \in ClockReadings :
        LET g == frequency_gate(last_claim_date, now) IN
        /\ result' = [op |-> "frequency_gate", last_claim_date |-> last_claim_date, now |-> now,
                      ok |-> g.ok, message |-> g.message]
        /\ UNCHANGED <<SYSTEM_STATUS, ledger, citizens, tampered, proc>>

SpecFrequency == Init /\ [][FrequencyGate \/ ProcessTransaction \/ UpsertCitizen]_vars

\* budget_gate called on its own in the current state
BudgetGate ==
    \E scheme \in RequestSchemes :
      \E amount \in RequestAmounts(scheme) :
        LET g == budget_gate(SYSTEM_STATUS, ledger, amount) IN
        /\ SYSTEM_STATUS' = g.status
        /\ result' = [op |-> "budget_gate", amount |-> amount, ok |-> g.ok, message |-> g.message]
        /\ UNCHANGED <<ledger, citizens, tampered, proc>>

SpecBudget == Init /\ [][BudgetGate \/ ProcessTransaction \/ Restart]_vars

SpecEligibility == Init /\ [][EligibilityGate]_vars

(***************************************************************************)
(* process_transaction calls only, one after the other                     *)
(***************************************************************************)
SpecCalls == Init /\ [][ProcessTransaction]_vars

(***************************************************************************)
(* The flat-file variant, test_fraud.py.  In SpecFile the variable ledger  *)
(* holds the lines of ledger.txt, each split into its six fields.          *)
(***************************************************************************)
MaxFileLines == 3

\* test_fraud.py lines 23-25
file_generate_hash(timestamp, citizen_hash, scheme, amount_str, previous_hash) ==
    Sha256(TimestampText(timestamp) \o citizen_hash \o <<scheme>> \o amount_str \o previous_hash)

\* test_fraud.py lines 28-37: the current hash of the last line
file_get_previous_hash(lines) ==
    IF lines = <<>> THEN GENESIS ELSE lines[Len(lines)].current_hash

\* test_fraud.py lines 49-59: previous_hash is carried along and never
\* compared with anything
RECURSIVE FileVerifyLoop(_, _)
FileVerifyLoop(lines, previous_hash) ==
    IF lines = <<>> THEN TRUE
    ELSE LET line == Head(lines)
             recalculated_hash == file_generate_hash(line.timestamp, line.citizen_hash, line.scheme,
                                                     line.amount_str, line.previous_hash)
         IN  IF recalculated_hash # line.current_hash THEN FALSE
             ELSE FileVerifyLoop(Tail(lines), line.current_hash)

file_verify_ledger_integrity(lines) == FileVerifyLoop(lines, GENESIS)

\* One run of the script: a new process (SYSTEM_STATUS "ACTIVE") makes the
\* request of Test 1, which passes every gate; Tests 2 to 4 are denied and
\* write nothing.
RunTestFraud ==
    /\ Len(ledger) < MaxFileLines
    /\ \E now \in ClockReadings :
         IF ~file_verify_ledger_integrity(ledger)
         THEN /\ SYSTEM_STATUS' = "FROZEN"
              /\ ledger' = ledger
              /\ result' = [op |-> "test_fraud", message |-> <<"Ledger Tampering Detected. System Frozen.">>]
         ELSE /\ SYSTEM_STATUS' = "ACTIVE"
              /\ ledger' = Append(ledger, FileLine(now, <<"5000">>, file_get_previous_hash(ledger)))
              /\ result' = [op |-> "test_fraud", message |-> <<"Transaction Approved">>]
    /\ UNCHANGED <<citizens, tampered, proc>>

\* the lines of s with those at positions i and j exchanged
Swap(s, i, j) == [s EXCEPT ![i] = s[j], ![j] = s[i]]

\* an outside writer takes a whole line out of the file or exchanges two
\* lines
FileEdit ==
    /\ ~tampered
    /\ \/ \E i \in 1..Len(ledger) : ledger' = Without(ledger, {i})
       \/ \E i, j \in 1..Len(ledger) : i < j /\ ledger' = Swap(ledger, i, j)
    /\ tampered' = TRUE
    /\ result' = [op |-> "file_edit"]
    /\ UNCHANGED <<SYSTEM_STATUS, citizens, proc>>

\* verify_ledger_integrity of test_fraud.py called on the file
FileVerify ==
    /\ result' = [op |-> "file_verify", ok |-> file_verify_ledger_integrity(ledger)]
    /\ UNCHANGED <<SYSTEM_STATUS, ledger, citizens, tampered, proc>>

NextFile == RunTestFraud \/ FileEdit \/ FileVerify

SpecFile == Init /\ [][NextFile]_vars

(***************************************************************************)
(* Requests a caller can make in the current state                         *)
(***************************************************************************)
\* the arguments of one call and the clock reading during it
Requests ==
    UNION {{[citizen_id |-> c, scheme |-> s, amount |-> a, now |-> n] :
               c \in RequestIds, a \in RequestAmounts(s), n \in ClockReadings} :
           s \in RequestSchemes}

\* what the call q does when it is made in the current state
Call(q) ==
    process_transaction(SYSTEM_STATUS, ledger, citizens, q.citizen_id, q.scheme, q.amount, q.now)

Last(s) == s[Len(s)]

\* the ledger L2 is the ledger L with exactly one more entry at its end
GrownByOne(L, L2) == Len(L2) = Len(L) + 1 /\ SubSeq(L2, 1, Len(L)) = L

\* C11 (as stated): a call that approves adds exactly one entry, carrying
\* hash_id(citizen_id) and the requested scheme and amount; the remaining
\* budget goes down by exactly the requested amount; and the returned
\* remaining_budget equals the new remaining budget.
C11_ReturnsNewRemaining ==
    \A q \in Requests :
        LET r == Call(q) IN
        r.result.success =>
            /\ GrownByOne(ledger, r.ledger)
            /\ Last(r.ledger).citizen_hash = hash_id(q.citizen_id)
            /\ Last(r.ledger).scheme = q.scheme
            /\ Last(r.ledger).amount = q.amount
            /\ calculate_remaining_budget(r.ledger) = calculate_remaining_budget(ledger) - q.amount
            /\ Rupees(r.result.remaining_budget) = calculate_remaining_budget(r.ledger)

\* C11 (amended): the same effect on the ledger and on the remaining budget;
\* the returned remaining_budget is the new remaining budget with its
\* fractional part cut off, so it equals the new remaining budget only when
\* that is a whole number of rupees.
C11_ReturnsTruncatedRemaining ==
    \A q \in Requests :
        LET r == Call(q)
            new_remaining == calculate_remaining_budget(r.ledger)
        IN  r.result.success =>
            /\ GrownByOne(ledger, r.ledger)
            /\ Last(r.ledger).citizen_hash = hash_id(q.citizen_id)
            /\ Last(r.ledger).scheme = q.scheme
            /\ Last(r.ledger).amount = q.amount
            /\ new_remaining = calculate_remaining_budget(ledger) - q.amount
            /\ Rupees(r.result.remaining_budget) <= new_remaining
            /\ new_remaining < Rupees(r.result.remaining_budget + 1)
            /\ (new_remaining % Rupees(1) = 0 => Rupees(r.result.remaining_budget) = new_remaining)

\* an approval of an amount with a fractional part has been committed
C11_Witness ==
    /\ IsCall(result) /\ result.success
    /\ ledger # <<>>
    /\ Last(ledger).amount % Rupees(1) # 0
    /\ Rupees(result.remaining_budget) # calculate_remaining_budget(ledger)

\* C12: every approved disbursement adds 1 to the approved citizen's
\* Claim_Count and sets that citizen's Last_Claim_Date to the day of the
\* approval; the record of no other citizen changes.
C12_ClaimRecorded ==
    [][(IsCall(result') /\ result'.success /\ GrownByOne(ledger, ledger')) =>
          \E c \in DOMAIN citizens :
              /\ hash_id(c) = Last(ledger').citizen_hash
              /\ DOMAIN citizens' = DOMAIN citizens
              /\ citizens'[c] = [citizens[c] EXCEPT !.Claim_Count = @ + 1,
                                                    !.Last_Claim_Date = DayOf(Last(ledger').timestamp)]
              /\ \A d \in DOMAIN citizens \ {c} : citizens'[d] = citizens[d]]_vars

\* the call q gets as far as the gates when made in the current state
ReachesGates(q) ==
    /\ SYSTEM_STATUS = "ACTIVE"
    /\ verify_ledger_integrity(ledger)
    /\ q.citizen_id \in DOMAIN citizens

\* C13: a call that reaches the gates reports the earliest failing gate in
\* the order eligibility, budget, frequency, with that gate's reason, and no
\* later gate has acted: an eligibility denial leaves SYSTEM_STATUS as it
\* was even when the budget gate would have locked, and the ledger is as
\* before on every denial.
C13_EarliestFailingGate ==
    \A q \in Requests :
        ReachesGates(q) =>
            LET row == citizens[q.citizen_id]
                e   == eligibility_gate(row, q.scheme, q.amount)
                b   == budget_gate(SYSTEM_STATUS, ledger, q.amount)
                f   == frequency_gate(row.Last_Claim_Date, q.now)
                r   == Call(q)
            IN  /\ ~e.ok =>
                     /\ r.result.gate = "eligibility" /\ r.result.message = e.message
                     /\ r.status = SYSTEM_STATUS /\ r.ledger = ledger
                /\ (e.ok /\ ~b.ok) =>
                     /\ r.result.gate = "budget" /\ r.result.message = b.message
                     /\ r.status = b.status /\ r.ledger = ledger
                /\ (e.ok /\ b.ok /\ ~f.ok) =>
                     /\ r.result.gate = "frequency" /\ r.result.message = f.message
                     /\ r.status = SYSTEM_STATUS /\ r.ledger = ledger
                /\ (e.ok /\ b.ok /\ f.ok) <=> r.result.success

\* a citizen inside the cooldown at every clock reading has been denied by
\* the budget gate
C13_Witness ==
    /\ IsCall(result) /\ result.gate = "budget" /\ result.citizen_name = "Amit Kumar"
    /\ \A n \in ClockReadings : ~frequency_gate(citizens["555566667777"].Last_Claim_Date, n).ok

\* the amounts of all ledger entries added up from the last entry backwards
TotalDisbursed(L) ==
    LET total[n \in 0..Len(L)] == IF n = 0 THEN 0 ELSE total[n - 1] + L[Len(L) + 1 - n].amount
    IN  total[Len(L)]

\* C14: the remaining budget is INITIAL_BUDGET less the sum of all ledger
\* amounts, or 0 when that is negative; no step of any interleaving of
\* process_transaction calls increases it, and it is never negative.
C14_RemainingBudget ==
    [][/\ calculate_remaining_budget(ledger') =
              (IF TotalDisbursed(ledger') >= Rupees(INITIAL_BUDGET)
               THEN 0 ELSE Rupees(INITIAL_BUDGET) - TotalDisbursed(ledger'))
       /\ calculate_remaining_budget(ledger') <= calculate_remaining_budget(ledger)
       /\ calculate_remaining_budget(ledger') >= 0]_vars

\* more than INITIAL_BUDGET has been disbursed: the floor at zero applies
C14_Witness ==
    /\ TotalDisbursed(ledger) > Rupees(INITIAL_BUDGET)
    /\ calculate_remaining_budget(ledger) = 0

\* C15: no entry is appended to the ledger in a state where SYSTEM_STATUS
\* is not ACTIVE, whatever the interleaving of the calls, calls already in
\* flight included.
C15_NoAppendWhenNotActive ==
    [][ledger' # ledger => SYSTEM_STATUS = "ACTIVE"]_vars

\* C16: a passing verification means that no appended entry has been
\* removed: right after rows were deleted from a ledger holding exactly the
\* appended entries, verify_ledger_integrity returns false.
C16_PassMeansNothingRemoved ==
    result.op = "remove_rows" => ~verify_ledger_integrity(ledger)

IsPrefix(s, t) == Len(s) <= Len(t) /\ SubSeq(t, 1, Len(s)) = s

\* C17: every operation leaves the ledger, in the order fetch_ledger_rows
\* reads it, a prefix of the ledger after the operation: existing entries
\* are unchanged, none is deleted, and new entries come after all of them.
C17_PrefixInLedgerOrder ==
    [][IsPrefix(fetch_ledger_rows(ledger), fetch_ledger_rows(ledger'))]_vars

\* the stored rows in the order of their ids: every operation leaves them
\* a prefix of the stored rows after it
StoredRowsOnlyGrow ==
    [][IsPrefix(ledger, ledger')]_vars

\* C18: eligibility_gate approves exactly when the account is Active, the
\* Aadhaar is linked, the citizen's scheme is the requested one, the scheme
\* is in SCHEME_AMOUNT_MAP, the registry amount and the requested amount are
\* each within AMOUNT_TOLERANCE of the authorized amount, and Claim_Count is
\* at most 3.  A citizen who is not Active is denied whatever the other
\* fields are; 4999 requested where 5000 is authorized is denied, with an
\* amount-mismatch reason once the checks before the amounts have passed.
C18_EligibleIff ==
    result.op = "eligibility_gate" =>
        LET row        == result.row
            supported  == result.scheme \in DOMAIN SCHEME_AMOUNT_MAP
            authorized == IF supported THEN SCHEME_AMOUNT_MAP[result.scheme] ELSE 0
            within(x)  == x - authorized <= AMOUNT_TOLERANCE /\ authorized - x <= AMOUNT_TOLERANCE
        IN  /\ result.ok <=>
                 /\ row.Account_Status = "Active"
                 /\ row.Aadhaar_Linked = TRUE
                 /\ row.Scheme_Eligibility = result.scheme
                 /\ supported
                 /\ within(row.Scheme_Amount)
                 /\ within(result.amount)
                 /\ row.Claim_Count <= 3
            /\ row.Account_Status # "Active" => ~result.ok
            /\ (authorized = Rupees(5000) /\ result.amount = Rupees(4999)) =>
                 /\ ~result.ok
                 /\ (row.Account_Status = "Active" /\ row.Aadhaar_Linked = TRUE
                       /\ row.Scheme_Eligibility = result.scheme) =>
                      result.message = IF within(row.Scheme_Amount)
                                       THEN <<"Transaction Amount Mismatch">>
                                       ELSE <<"Registry Scheme Amount Mismatch">>

\* a citizen with every field in order and three earlier claims has asked
\* for 4999 where 5000 is authorized
C18_Witness ==
    /\ result.op = "eligibility_gate"
    /\ result.row.Account_Status = "Active" /\ result.row.Aadhaar_Linked
    /\ result.row.Claim_Count = CLAIM_LIMIT
    /\ result.row.Scheme_Amount = Rupees(5000) + 5
    /\ result.scheme = "Health_Scheme" /\ result.amount = Rupees(4999)
    /\ ~result.ok /\ result.message = <<"Transaction Amount Mismatch">>

\* C19: frequency_gate denies when fewer than 30 whole days lie between
\* midnight of last_claim_date and now, approves from 30 whole days on, and
\* denies with "Invalid last claim date", a reason no other denial has, when
\* the date does not parse.  A call that passes the eligibility and budget
\* gates for a citizen whose last_claim_date is 10 days old is denied with
\* gate "frequency" and leaves the ledger as it was.
C19_Cooldown ==
    /\ result.op = "frequency_gate" =>
         LET parses     == result.last_claim_date # -1
             whole_days == (result.now - 86400 * result.last_claim_date) \div 86400
         IN  /\ result.ok <=> (parses /\ whole_days >= 30)
             /\ ~parses <=> result.message = <<"Invalid last claim date">>
    /\ \A q \in Requests :
         (/\ ReachesGates(q)
          /\ eligibility_gate(citizens[q.citizen_id], q.scheme, q.amount).ok
          /\ budget_gate(SYSTEM_STATUS, ledger, q.amount).ok
          /\ DayOf(q.now) - citizens[q.citizen_id].Last_Claim_Date = 10) =>
             LET r == Call(q) IN
             /\ ~r.result.success /\ r.result.gate = "frequency"
             /\ r.ledger = ledger

\* a call for a citizen whose last claim is 10 days old has been denied by
\* the frequency gate
C19_Witness ==
    /\ IsCall(result) /\ result.gate = "frequency" /\ ~result.success
    /\ result.message = <<"Claim within 30 days not allowed (Last claim: ", "10", " days ago)">>

\* budget_gate has just run: on its own, or as the gate that denied a call
BudgetGateRan(r) == r.op = "budget_gate" \/ (IsCall(r) /\ r.gate = "budget")

\* C20: when the remaining budget is <= 0 budget_gate denies and
\* SYSTEM_STATUS is LOCKED afterwards; when it is positive and smaller than
\* the amount the gate denies and SYSTEM_STATUS is as before; otherwise the
\* gate approves and SYSTEM_STATUS is as before.  The ledger and the citizen
\* records are as before in every case.
C20_BudgetGate ==
    [][BudgetGateRan(result') =>
          LET remaining == calculate_remaining_budget(ledger)
              denied    == IF IsCall(result') THEN ~result'.success ELSE ~result'.ok
          IN  /\ remaining <= 0 =>
                   /\ denied /\ SYSTEM_STATUS' = "LOCKED"
                   /\ result'.message = <<"Budget Exhausted. System Locked.">>
              /\ (remaining > 0 /\ denied) =>
                   /\ SYSTEM_STATUS' = SYSTEM_STATUS
                   /\ result'.message = <<"Insufficient Budget">>
              /\ result'.op = "budget_gate" =>
                   /\ denied <=> (remaining <= 0 \/ result'.amount > remaining)
                   /\ ~denied => SYSTEM_STATUS' = SYSTEM_STATUS
              /\ ledger' = ledger
              /\ citizens' = citizens]_vars

\* the gate has denied an amount larger than a positive remaining budget
\* and the system is still ACTIVE
C20_Witness ==
    /\ BudgetGateRan(result)
    /\ result.message = <<"Insufficient Budget">>
    /\ calculate_remaining_budget(ledger) > 0
    /\ SYSTEM_STATUS = "ACTIVE"

\* C21: with SYSTEM_STATUS ACTIVE and a ledger that verifies, a call for a
\* citizen_id without a registry record is denied with "Citizen Not Found"
\* under gate "lookup", and the ledger, the registry and SYSTEM_STATUS are as
\* before, whatever budget remains: no gate has run, so the budget gate has
\* not locked an exhausted system.
C21_UnknownCitizen ==
    /\ [](\A q \in Requests :
            (SYSTEM_STATUS = "ACTIVE" /\ verify_ledger_integrity(ledger)
               /\ q.citizen_id \notin DOMAIN citizens) =>
                LET r == Call(q) IN
                /\ r.result = Denial(<<"Citizen Not Found">>, "lookup", "")
                /\ r.ledger = ledger
                /\ r.status = SYSTEM_STATUS)
    /\ [][(IsCall(result') /\ result'.gate = "lookup") =>
             UNCHANGED <<ledger, citizens, SYSTEM_STATUS>>]_vars

\* an unknown citizen has been turned away on an exhausted budget and the
\* system is still ACTIVE
C21_Witness ==
    /\ IsCall(result) /\ result.gate = "lookup"
    /\ result.message = <<"Citizen Not Found">>
    /\ calculate_remaining_budget(ledger) = 0
    /\ SYSTEM_STATUS = "ACTIVE"

\* C22: the outcome of a call is decided by the earliest failing step in the
\* order status check, integrity check, citizen lookup, gates: a status
\* other than ACTIVE gives the system denial even on a ledger that does not
\* verify; a ledger that does not verify gives the integrity denial even for
\* an unknown citizen; an unknown citizen gives the lookup denial before any
\* gate; and the ledger gets an entry only when every step of the same call
\* has passed.
C22_StepOrder ==
    \A q \in Requests :
        LET r      == Call(q)
            active == SYSTEM_STATUS = "ACTIVE"
            intact == verify_ledger_integrity(ledger)
            known  == q.citizen_id \in DOMAIN citizens
        IN  /\ ~active => r.result.gate = "system" /\ r.status = SYSTEM_STATUS
            /\ (active /\ ~intact) => r.result.gate = "integrity"
            /\ (active /\ intact /\ ~known) => r.result.gate = "lookup"
            /\ (active /\ intact /\ known) =>
                   r.result.gate \in {"eligibility", "budget", "frequency", "none"}
            /\ r.ledger # ledger =>
                   /\ active /\ intact /\ known
                   /\ eligibility_gate(citizens[q.citizen_id], q.scheme, q.amount).ok
                   /\ budget_gate(SYSTEM_STATUS, ledger, q.amount).ok
                   /\ frequency_gate(citizens[q.citizen_id].Last_Claim_Date, q.now).ok
                   /\ r.result.success
            /\ r.result.success => r.ledger # ledger

\* a call has been turned away by the status check on a ledger that does
\* not verify
C22_Witness ==
    /\ IsCall(result) /\ result.gate = "system"
    /\ SYSTEM_STATUS = "LOCKED"
    /\ ~verify_ledger_integrity(ledger)

\* C23: a status query whose integrity recomputation fails leaves the
\* system FROZEN, so it never reports ledger_integrity false together with
\* system_status "ACTIVE".
C23_StatusQueryFreezes ==
    (result.op = "get_status" /\ ~result.ledger_integrity) =>
        /\ SYSTEM_STATUS = "FROZEN"
        /\ result.system_status # "ACTIVE"

\* C24: with no upsert between the calls, the ledger never holds two entries
\* with the same citizen_hash whose dates are fewer than 30 days apart.
C24_NoPaymentInsideCooldown ==
    \A i, j \in 1..Len(ledger) :
        (i < j /\ ledger[i].citizen_hash = ledger[j].citizen_hash) =>
            Abs(DayOf(ledger[j].timestamp) - DayOf(ledger[i].timestamp)) >= COOLDOWN_DAYS

\* C25: the amounts of all ledger entries never add up to more than
\* INITIAL_BUDGET, whatever the interleaving of the calls.
C25_NoOverspend ==
    TotalDisbursed(ledger) <= Rupees(INITIAL_BUDGET)

\* C26: every entry a call appends has a scheme that is a key of
\* SCHEME_AMOUNT_MAP and an amount within AMOUNT_TOLERANCE of the amount
\* authorized for it, and when it is appended the registry holds a citizen
\* with the entry's citizen_hash who is Active, Aadhaar-linked, eligible for
\* the entry's scheme and has a Claim_Count of at most 3.
C26_DisbursementAuthorized ==
    [][ledger' # ledger =>
          /\ GrownByOne(ledger, ledger')
          /\ LET entry == Last(ledger') IN
             /\ entry.scheme \in DOMAIN SCHEME_AMOUNT_MAP
             /\ entry.amount - SCHEME_AMOUNT_MAP[entry.scheme] <= AMOUNT_TOLERANCE
             /\ SCHEME_AMOUNT_MAP[entry.scheme] - entry.amount <= AMOUNT_TOLERANCE
             /\ \E c \in DOMAIN citizens :
                   /\ hash_id(c) = entry.citizen_hash
                   /\ citizens[c].Account_Status = "Active"
                   /\ citizens[c].Aadhaar_Linked = TRUE
                   /\ citizens[c].Scheme_Eligibility = entry.scheme
                   /\ citizens[c].Claim_Count <= 3
                   /\ citizens'[c] = citizens[c]]_vars

\* a citizen made eligible by an upsert has been paid
C26_Witness ==
    /\ IsCall(result) /\ result.success /\ result.citizen_name = "Amit Kumar"
    /\ ledger # <<>>
    /\ Last(ledger).citizen_hash = hash_id("555566667777")
    /\ citizens["555566667777"].Account_Status = "Active"

\* C27: SYSTEM_STATUS is LOCKED only in states where the remaining budget,
\* cut to whole rupees, is <= 0, that is where the ledger total is above
\* INITIAL_BUDGET less one rupee.
C27_LockedMeansExhausted ==
    SYSTEM_STATUS = "LOCKED" =>
        /\ IntPart(calculate_remaining_budget(ledger)) <= 0
        /\ TotalDisbursed(ledger) > Rupees(INITIAL_BUDGET - 1)

\* the system is LOCKED after approvals that used up the budget
C27_Witness ==
    /\ SYSTEM_STATUS = "LOCKED"
    /\ Len(ledger) >= 2
    /\ TotalDisbursed(ledger) >= Rupees(INITIAL_BUDGET)

\* every line names the line before it: previous_hash is the current_hash
\* of the line before, "GENESIS" on the first line
FileLinked(lines) ==
    \A i \in 1..Len(lines) :
        lines[i].previous_hash = IF i = 1 THEN GENESIS ELSE lines[i - 1].current_hash

\* C28: verify_ledger_integrity of test_fraud.py returns false for a file in
\* which some line's previous_hash is not the current_hash of the line
\* before it, also when every line's own hash is right.
C28_FileLinkageChecked ==
    (result.op = "file_verify" /\ ~FileLinked(ledger)) => ~result.ok

====
